---- MODULE Spec2Model ----
(***************************************************************************)
(* Model of ambassador/cli.py: the ResourceFetcher (directory walk, YAML   *)
(* documents, Kubernetes annotation extraction) and the commands config    *)
(* (check-mode probe, regeneration pipeline, fatal exception handler),     *)
(* validate (a call of config) and dump (the pipeline printed to stdout).  *)
(*                                                                         *)
(* The specifications share the operators that model the code:             *)
(*   SpecFetch  runs fetch_resources step by step, one loop iteration of   *)
(*              ResourceFetcher.__init__ / load_yaml per action, with the  *)
(*              directory entries and documents drawn as they are reached  *)
(*              (SpecFetchFair: the same, with the steps taken fairly);    *)
(*   Spec       runs one invocation of config, or of validate, stage by    *)
(*              stage;                                                     *)
(*   SpecDump   runs one invocation of dump, stage by stage;               *)
(*   SpecRace   runs two invocations of config on one file system.         *)
(***************************************************************************)
EXTENDS Integers, Sequences, FiniteSets, TLC

VARIABLES
    \* ---- ResourceFetcher, step by step (SpecFetch) ----
    fpc,          \* position inside fetch_resources
    self,         \* the ResourceFetcher object: resources, filename, filepath, ocount, exc
    rkey,         \* load_yaml's local rkey of the file-level call
    obj,          \* load_yaml's loop variable: the document being processed
    docno,        \* 1-based position of obj in its file (the loop's iteration index)
    fileno,       \* 1-based position of the current entry in os.listdir's result
    todo_files,   \* entries of the listing not yet reached
    todo_docs,    \* documents of the current file not yet reached
    \* ---- shared parameter ----
    k8s,
    \* ---- config, stage by stage (Spec) ----
    pc,           \* position inside config
    check, exit_on_error, dump_aconf, dump_ir,   \* parameters of config
    output_exists,
    files,        \* the file system: path -> [state, text]
    files0,       \* the file system when config was invoked
    resources,    \* what fetch_resources returned
    aconf,        \* the Config object: what load_all was given, and its error ledger
    rc,           \* RichStatus truthiness
    exc,          \* the exception that reached config's handler
    exit_code,    \* process exit status (NotExited while running)
    trace,        \* instrumentation: stage calls and file opens, in order
    \* ---- the invocation ----
    cmd,          \* the command clize dispatched to: config, validate or dump
    config_dir,   \* the directory at config_dir_path: [exists, entries]
    output_json_path,   \* config's parameter (None until config is called)
    argv,         \* dump's parameters aconf, ir, v1 as given
    dump_flags,   \* dump's locals dump_aconf, dump_ir, dump_v1
    stdout,       \* sys.stdout: what was written to it, in order
    \* ---- a second invocation on the same file system (SpecRace) ----
    me,           \* which invocation the variables above belong to
    other         \* the variables of the invocation that is not running

fvars == <<fpc, self, rkey, obj, docno, fileno, todo_files, todo_docs>>
\* what no step of config changes: the invocation's parameters, dump's state and
\* the other invocation
nvars == <<cmd, config_dir, output_json_path, argv, dump_flags, stdout, me, other>>
cvars == <<pc, check, exit_on_error, dump_aconf, dump_ir, output_exists, files,
           files0, resources, aconf, rc, exc, exit_code, trace, nvars>>
vars == <<fvars, k8s, cvars>>

(***************************************************************************)
(* Bounds                                                                  *)
(***************************************************************************)
\* entries of the directory listing walked by SpecFetch
MaxFiles == 2
\* documents per file walked by SpecFetch
MaxDocs == 2
\* documents of the one file of the directories config fetches in Spec
MaxPipeDocs == 2

(***************************************************************************)
(* Python values                                                           *)
(***************************************************************************)
\* None, where the value is otherwise a string
None == "<None>"

\* `not s` for s a string or None
Falsy(s) == s = None \/ s = ""

\* dict.get(k, default), for string-valued keys
Get(d, k, default) == IF k \in DOMAIN d THEN d[k] ELSE default

\* d.get(k) is a non-empty mapping or a non-empty string record (truthy)
HasMapping(d, k) == k \in DOMAIN d /\ DOMAIN d[k] # {}

\* An exception in flight: its class, its message and the stage that raised it
NoExc == [type |-> None, msg |-> None, stage |-> None]
Exc(type, msg, stage) == [type |-> type, msg |-> msg, stage |-> stage]

(***************************************************************************)
(* Texts and documents                                                     *)
(* A text (a file's content or an annotation's value) is what the YAML     *)
(* reader makes of it: blank (the empty string), malformed, or a sequence  *)
(* of documents. A document is a mapping: a function whose DOMAIN is the   *)
(* set of keys present.                                                    *)
(***************************************************************************)
YamlText(docs) == [blank |-> FALSE, wellformed |-> TRUE, docs |-> docs]
EmptyText == [blank |-> TRUE, wellformed |-> TRUE, docs |-> <<>>]
MalformedText == [blank |-> FALSE, wellformed |-> FALSE, docs |-> <<>>]

ConfigAnnotation == "getambassador.io/config"

M1 == [kind |-> "Mapping", name |-> "m1"]
M2 == [kind |-> "Mapping", name |-> "m2"]
FlatDocs == {M1, M2}

WithConfig(text) == [a \in {ConfigAnnotation} |-> text]
MetaA == [name |-> "svc1", namespace |-> "ns1", annotations |-> WithConfig(YamlText(<<M1, M2>>))]
SvcA == [kind |-> "Service", metadata |-> MetaA]
SvcB == [kind |-> "Service",
         metadata |-> [name |-> "svc2", annotations |-> WithConfig(YamlText(<<M2>>))]]
CfgMap == [kind |-> "ConfigMap", metadata |-> MetaA]
NoKind == [metadata |-> MetaA]
SvcNoMeta == [kind |-> "Service"]
SvcNoName == [kind |-> "Service",
              metadata |-> [namespace |-> "ns1", annotations |-> WithConfig(YamlText(<<M1>>))]]
SvcNoAnn == [kind |-> "Service", metadata |-> [name |-> "svc1", namespace |-> "ns1"]]
SvcOtherAnn == [kind |-> "Service",
                metadata |-> [name |-> "svc1",
                              annotations |-> [a \in {"example.com/owner"} |-> EmptyText]]]
SvcEmptyAnn == [kind |-> "Service",
                metadata |-> [name |-> "svc1", annotations |-> WithConfig(EmptyText)]]
SvcBadAnn == [kind |-> "Service",
              metadata |-> [name |-> "svc1", annotations |-> WithConfig(MalformedText)]]
\* A Service whose config annotation holds a document that is itself a Service with a
\* config annotation
SvcNested == [kind |-> "Service",
              metadata |-> [name |-> "svc3", annotations |-> WithConfig(YamlText(<<SvcB>>))]]
K8sDocs == {SvcA, SvcB, CfgMap, NoKind, SvcNoMeta, SvcNoName, SvcNoAnn, SvcOtherAnn,
            SvcEmptyAnn, SvcBadAnn, SvcNested}

\* The loop variable before the first document
NoObj == [unset |-> TRUE]

\* The documents a file may hold in each mode
DocsOf(mode) == IF mode THEN K8sDocs ELSE FlatDocs

ConfigDirPath == "cfg"
FileName(i) == "f" \o ToString(i) \o ".yaml"
PathJoin(dir, name) == dir \o "/" \o name

(***************************************************************************)
(* ResourceFetcher                                                         *)
(***************************************************************************)
\* ACResource.from_dict(rkey, location, serialization, obj); the source text kept on
\* the resource is left out
ACResource_from_dict(k, location, o) == [rkey |-> k, location |-> location, obj |-> o]

\* The fetcher's attributes, with two counters kept for the analysis: depth, the
\* number of load_yaml calls on the stack, and maxdepth, the largest it has been
NewFetcher == [resources |-> <<>>, filename |-> None, filepath |-> None, ocount |-> 0,
               exc |-> NoExc, depth |-> 0, maxdepth |-> 0]

\* load_yaml is called; load_yaml returns (a call that raises does not return)
enter_load_yaml(s) ==
    [s EXCEPT !.depth = @ + 1, !.maxdepth = IF s.depth + 1 > @ THEN s.depth + 1 ELSE @]
leave_load_yaml(s) == IF s.exc.type # None THEN s ELSE [s EXCEPT !.depth = @ - 1]

Raised(s) == s.exc.type # None
Raise(s, type, msg) == [s EXCEPT !.exc = Exc(type, msg, "fetch")]

\* "%s.%d" % (self.filename, self.ocount)
FlatKey(filename, ocount) == filename \o "." \o ToString(ocount)

\* '{name}.{namespace}'.format(namespace=resource_namespace, name=resource_name)
K8sIdentifier_NameOnly(name, namespace) == name
K8sIdentifier(name, namespace) == name \o "." \o namespace

\* kind != "Service"
NotService_OnlyConfigMap(kind) == kind = "ConfigMap"
NotService(kind) == kind # "Service"

\* not resource_name
MissingName_Never(resource_name) == FALSE
MissingName(resource_name) == Falsy(resource_name)

\* The k8s argument of the nested call self.load_yaml(annotations, rkey=...): it is
\* not passed, so the parameter takes its default (lines 137, 191)
NestedK8s_Inherit == TRUE
NestedK8s == FALSE

RECURSIVE load_yaml(_, _, _, _)

extract_k8s(s, o) ==
    LET kind == Get(o, "kind", None) IN
    IF NotService(kind) THEN s
    ELSE IF ~HasMapping(o, "metadata") THEN s
    ELSE
        LET metadata == o.metadata
            resource_name == Get(metadata, "name", None)
        IN
        IF MissingName(resource_name) THEN s
        ELSE
            LET resource_namespace == Get(metadata, "namespace", "default")
                resource_identifier == K8sIdentifier(resource_name, resource_namespace)
            IN
            IF ~HasMapping(metadata, "annotations") THEN s
            ELSE IF ConfigAnnotation \notin DOMAIN metadata.annotations THEN s
            ELSE
                LET annotations == metadata.annotations[ConfigAnnotation] IN
                IF annotations.blank THEN s
                ELSE load_yaml([s EXCEPT !.filename = @ \o ":annotation"],
                               annotations, resource_identifier, NestedK8s)

\* self.resources.append(r)
resources_append_Shadow(rs, r) ==
    IF \E i \in DOMAIN rs : rs[i].rkey = r.rkey
    THEN [i \in DOMAIN rs |-> IF rs[i].rkey = r.rkey THEN r ELSE rs[i]]
    ELSE Append(rs, r)
resources_append(rs, r) == Append(rs, r)

\* One iteration of load_yaml's loop: the fetcher and the local rkey after it
loop_body(s, o, rk, mode) ==
    LET r == IF mode
             THEN [self |-> extract_k8s(s, o), rkey |-> rk]
             ELSE LET key == IF Falsy(rk) THEN FlatKey(s.filename, s.ocount) ELSE rk
                  IN [self |-> [s EXCEPT !.resources =
                                    resources_append(@, ACResource_from_dict(key, key, o))],
                      rkey |-> key]
    IN IF Raised(r.self) THEN r ELSE [r EXCEPT !.self.ocount = @ + 1]

RECURSIVE load_objects(_, _, _, _)
load_objects(s, objects, rk, mode) ==
    IF objects = <<>> THEN s
    ELSE LET r == loop_body(s, Head(objects), rk, mode) IN
         IF Raised(r.self) THEN r.self
         ELSE load_objects(r.self, Tail(objects), r.rkey, mode)

\* yaml.safe_load_all(serialization) raises on text that is not YAML
yaml_error(s) == Raise(s, "YAMLError", "<unicode string>")

load_yaml(s, serialization, rk, mode) ==
    LET s0 == enter_load_yaml(s) IN
    IF ~serialization.wellformed THEN yaml_error(s0)
    ELSE leave_load_yaml(load_objects(s0, serialization.docs, rk, mode))

\* __init__'s loop body up to the read of the file
begin_file(s, filename) ==
    [s EXCEPT !.filename = filename, !.filepath = PathJoin(ConfigDirPath, filename),
              !.ocount = 1]

\* open(filepath, "r").read() raises on a file that cannot be read
read_error(s) == Raise(s, "OSError", s.filepath)

\* __init__'s loop body after load_yaml
end_file(s) == [s EXCEPT !.filename = None, !.filepath = None, !.ocount = 0]

\* os.listdir raises on a directory that does not exist
listdir_error(s) == Raise(s, "FileNotFoundError", ConfigDirPath)

RECURSIVE init_loop(_, _, _)
init_loop(s, entries, mode) ==
    IF entries = <<>> THEN s
    ELSE LET e == Head(entries) IN
         IF ~e.isfile THEN init_loop(s, Tail(entries), mode)
         ELSE LET s1 == begin_file(s, e.filename) IN
              IF ~e.readable THEN read_error(s1)
              ELSE LET s2 == load_yaml(s1, e.serialization, None, mode) IN
                   IF Raised(s2) THEN s2
                   ELSE init_loop(end_file(s2), Tail(entries), mode)

\* ResourceFetcher(config_dir_path, k8s) on a directory [exists, entries]
ResourceFetcher(dir, mode) ==
    IF ~dir.exists THEN listdir_error(NewFetcher)
    ELSE init_loop(NewFetcher, dir.entries, mode)

(***************************************************************************)
(* The file system and the external stages, as config sees them            *)
(***************************************************************************)
OutputJsonPath == "envoy.json"
AconfPath == "aconf.json"
IrPath == "ir.json"
\* os.devnull: it always exists, reads as the empty text and keeps nothing written to it
DevNull == "/dev/null"
Paths == {OutputJsonPath, AconfPath, IrPath, DevNull}

\* A path with no file; a file open() refuses (permissions, a directory); a file whose
\* bytes are not text in the locale's encoding; a text file
Absent == [state |-> "absent", text |-> ""]
Unreadable == [state |-> "unreadable", text |-> ""]
Undecodable == [state |-> "undecodable", text |-> ""]
TextFile(t) == [state |-> "text", text |-> t]

\* as_json() of the three artifacts, and what an earlier run left at the output path
V1Json == "[1]"
AconfJson == "[2]"
IrJson == "[3]"
OldJson == "[0]\n"
NotJson == "not json"

\* json.loads accepts the text
json_loads_ok_Never(text) == FALSE
json_loads_ok(text) ==
    text \in {OldJson, V1Json, V1Json \o "\n", AconfJson \o "\n", IrJson \o "\n"}

\* What may be at the output path when config is invoked
OutputStates == {Absent, Unreadable, Undecodable, TextFile(NotJson), TextFile(OldJson)}

\* json.loads(open(output_json_path, "r").read()): the exception raised, or None
probe_exception(f) ==
    CASE f.state = "absent" -> "FileNotFoundError"
      [] f.state = "unreadable" -> "OSError"
      [] f.state = "undecodable" -> "UnicodeDecodeError"
      [] f.state = "text" /\ ~json_loads_ok(f.text) -> "JSONDecodeError"
      [] OTHER -> None

\* The probe's except clauses: FileNotFoundError, OSError, json.decoder.JSONDecodeError
ProbeCaught(type) == type \in {"FileNotFoundError", "OSError", "JSONDecodeError"}

\* if not output_exists
Regenerate_Always(exists) == TRUE
Regenerate(exists) == ~exists

\* with open(path, "w") as output: output.write(artifact.as_json()); output.write("\n")
\* open may raise (the file is left alone); as_json may raise (the file is left
\* truncated); otherwise the file holds the payload and a newline
WriteOutcomes == {"open_fails", "as_json_raises", "ok"}
open_w_TempFile(fs, path) == fs
open_w_Append(fs, path) ==
    IF fs[path].state = "text" THEN fs ELSE [fs EXCEPT ![path] = TextFile("")]
open_w(fs, path) == [fs EXCEPT ![path] = TextFile("")]
write_payload(fs, path, payload) ==
    IF path = DevNull THEN fs ELSE [fs EXCEPT ![path] = TextFile(payload \o "\n")]
write_file(fs, path, payload, outcome) ==
    CASE outcome = "open_fails" -> fs
      [] outcome = "as_json_raises" -> open_w(fs, path)
      [] OTHER -> write_payload(open_w(fs, path), path, payload)

\* Config() before load_all
NoConfig == [loaded |-> <<>>, errors |-> <<>>]

\* Config.post_error: the ledger maps a key to its error messages, in insertion order
post_error(ledger, key, msg) ==
    IF \E i \in DOMAIN ledger : ledger[i].key = key
    THEN [i \in DOMAIN ledger |->
             IF ledger[i].key = key
             THEN [ledger[i] EXCEPT !.errors = Append(@, msg)]
             ELSE ledger[i]]
    ELSE Append(ledger, [key |-> key, errors |-> <<msg>>])

\* Config.load_all(resources): every resource is ingested; those that fail validation
\* (bad: their positions) get an error recorded under their key
RECURSIVE load_all_from(_, _, _, _)
load_all_from(ledger, rs, bad, i) ==
    IF i > Len(rs) THEN ledger
    ELSE load_all_from(IF i \in bad THEN post_error(ledger, rs[i].rkey, "invalid")
                       ELSE ledger,
                       rs, bad, i + 1)
Config_load_all(rs, bad) == [loaded |-> rs, errors |-> load_all_from(<<>>, rs, bad, 1)]

\* aconf.errors.keys()
errors_keys(ledger) == [i \in DOMAIN ledger |-> ledger[i].key]

\* sep.join(strings)
RECURSIVE join(_, _)
join(sep, strings) ==
    IF strings = <<>> THEN ""
    ELSE IF Len(strings) = 1 THEN strings[1]
    ELSE strings[1] \o sep \o join(sep, Tail(strings))

\* if exit_on_error and aconf.errors
ShouldAbort_IgnoreFlag(flag, ledger) == ledger # <<>>
ShouldAbort(flag, ledger) == flag /\ ledger # <<>>

\* "errors in: {0}".format(', '.join(aconf.errors.keys()))
AbortMessage_FirstOnly(ledger) == "errors in: " \o ledger[1].key
AbortMessage(ledger) == "errors in: " \o join(", ", errors_keys(ledger))

\* RichStatus.fromError(...) is falsy, RichStatus.OK(...) is truthy
RichStatus_fromError == FALSE
RichStatus_OK == TRUE

\* Exit status while the process runs
NotExited == -1

\* All sequences over S of length at most n
SeqsUpTo(S, n) == UNION {[1..m -> S] : m \in 0..n}

\* The directories config is run on: a missing directory, or a directory with one
\* entry that is not a regular file, cannot be read, is not YAML, or holds at most
\* MaxPipeDocs documents
PipeDocsOf(mode) == IF mode THEN {SvcA, SvcB, CfgMap} ELSE FlatDocs
EntryAt(i, isfile, readable, text) ==
    [filename |-> FileName(i), isfile |-> isfile, readable |-> readable,
     serialization |-> text]
Entry(isfile, readable, text) == EntryAt(1, isfile, readable, text)
\* A first file that parses (one document), followed by a second file that cannot
\* be read, is not YAML, or parses too
GoodDoc(mode) == IF mode THEN SvcA ELSE M1
TwoFileDirs(mode) ==
    {[exists |-> TRUE,
      entries |-> <<Entry(TRUE, TRUE, YamlText(<<GoodDoc(mode)>>)), second>>] :
        second \in {EntryAt(2, TRUE, FALSE, EmptyText),
                    EntryAt(2, TRUE, TRUE, MalformedText),
                    EntryAt(2, TRUE, TRUE, YamlText(<<GoodDoc(mode)>>))}}
PipeDirs(mode) ==
    {[exists |-> FALSE, entries |-> <<>>],
     [exists |-> TRUE, entries |-> <<Entry(FALSE, TRUE, EmptyText)>>],
     [exists |-> TRUE, entries |-> <<Entry(TRUE, FALSE, EmptyText)>>],
     [exists |-> TRUE, entries |-> <<Entry(TRUE, TRUE, MalformedText)>>]}
    \cup {[exists |-> TRUE,
           entries |-> <<Entry(TRUE, TRUE, IF docs = <<>> THEN EmptyText ELSE YamlText(docs))>>] :
            docs \in SeqsUpTo(PipeDocsOf(mode), MaxPipeDocs)}
    \cup TwoFileDirs(mode)

\* No directory: the value of config_dir where fetch_resources draws its input step
\* by step
NoDir == [exists |-> FALSE, entries |-> <<>>]

\* dump's flags before dump is called
NoFlags == [aconf |-> FALSE, ir |-> FALSE, v1 |-> FALSE]
NoDumpFlags == [dump_aconf |-> FALSE, dump_ir |-> FALSE, dump_v1 |-> FALSE]

\* The invocation that is not there
NoInvocation == [pc |-> "none"]

(***************************************************************************)
(* fetch_resources, step by step                                           *)
(***************************************************************************)
FetchIdle ==
    /\ self = NewFetcher
    /\ rkey = None
    /\ obj = NoObj
    /\ docno = 0
    /\ fileno = 0
    /\ todo_files = 0
    /\ todo_docs = 0

\* dump was not called
DumpIdle ==
    /\ argv = NoFlags
    /\ dump_flags = NoDumpFlags
    /\ stdout = <<>>

\* one invocation only
Alone ==
    /\ me = 1
    /\ other = NoInvocation

ConfigIdle ==
    /\ pc = "idle"
    /\ check = FALSE
    /\ exit_on_error = FALSE
    /\ dump_aconf = None
    /\ dump_ir = None
    /\ output_exists = FALSE
    /\ files = <<>>
    /\ files0 = <<>>
    /\ resources = <<>>
    /\ aconf = NoConfig
    /\ rc = FALSE
    /\ exc = NoExc
    /\ exit_code = NotExited
    /\ trace = <<>>
    /\ cmd = "fetch_resources"
    /\ config_dir = NoDir
    /\ output_json_path = None
    /\ DumpIdle
    /\ Alone

InitFetch ==
    /\ fpc = "listdir"
    /\ FetchIdle
    /\ k8s \in BOOLEAN
    /\ ConfigIdle

\* os.listdir(config_dir_path): the listing has n entries, or the directory is missing
ListDir ==
    /\ fpc = "listdir"
    /\ \E n \in 0..MaxFiles, exists \in BOOLEAN :
          IF exists
          THEN /\ todo_files' = n
               /\ fpc' = "entry"
               /\ self' = self
          ELSE /\ todo_files' = 0
               /\ fpc' = "raised"
               /\ self' = listdir_error(self)
    /\ UNCHANGED <<rkey, obj, docno, fileno, todo_docs, k8s, cvars>>

\* an entry that is not a regular file: continue
SkipEntry ==
    /\ fpc = "entry"
    /\ todo_files > 0
    /\ fileno' = fileno + 1
    /\ todo_files' = todo_files - 1
    /\ UNCHANGED <<fpc, self, rkey, obj, docno, todo_docs, k8s, cvars>>

\* a regular file: set filename, filepath and ocount, read it and parse it
\* (load_yaml's list(yaml.safe_load_all(...)) parses the whole text first)
OpenFile ==
    /\ fpc = "entry"
    /\ todo_files > 0
    /\ fileno' = fileno + 1
    /\ todo_files' = todo_files - 1
    /\ LET s1 == begin_file(self, FileName(fileno + 1)) IN
       \E readable \in BOOLEAN, wellformed \in BOOLEAN, n \in 0..MaxDocs :
          IF ~readable
          THEN /\ wellformed /\ n = 0
               /\ self' = read_error(s1)
               /\ fpc' = "raised"
               /\ todo_docs' = 0
          ELSE IF ~wellformed
          THEN /\ n = 0
               /\ self' = yaml_error(enter_load_yaml(s1))
               /\ fpc' = "raised"
               /\ todo_docs' = 0
          ELSE /\ self' = enter_load_yaml(s1)
               /\ fpc' = "docs"
               /\ todo_docs' = n
    /\ rkey' = None
    /\ docno' = 0
    /\ obj' = NoObj
    /\ UNCHANGED <<k8s, cvars>>

\* one iteration of the file-level load_yaml loop
LoadDoc ==
    /\ fpc = "docs"
    /\ todo_docs > 0
    /\ \E o \in DocsOf(k8s) :
          LET r == loop_body(self, o, rkey, k8s) IN
          /\ obj' = o
          /\ self' = r.self
          /\ rkey' = r.rkey
          /\ fpc' = IF Raised(r.self) THEN "raised" ELSE "docs"
    /\ docno' = docno + 1
    /\ todo_docs' = todo_docs - 1
    /\ UNCHANGED <<fileno, todo_files, k8s, cvars>>

\* the file-level load_yaml returned: reset filename, filepath and ocount
EndFile ==
    /\ fpc = "docs"
    /\ todo_docs = 0
    /\ self' = end_file(leave_load_yaml(self))
    /\ fpc' = "entry"
    /\ UNCHANGED <<rkey, obj, docno, fileno, todo_files, todo_docs, k8s, cvars>>

\* the listing is exhausted: fetch_resources returns the iterator
FetchReturn ==
    /\ fpc = "entry"
    /\ todo_files = 0
    /\ fpc' = "returned"
    /\ UNCHANGED <<self, rkey, obj, docno, fileno, todo_files, todo_docs, k8s, cvars>>

NextFetch == ListDir \/ SkipEntry \/ OpenFile \/ LoadDoc \/ EndFile \/ FetchReturn

SpecFetch == InitFetch /\ [][NextFetch]_vars

\* fetch_resources is one synchronous call: while a step remains, one is taken
SpecFetchFair == SpecFetch /\ WF_vars(NextFetch)

(***************************************************************************)
(* config, stage by stage                                                  *)
(***************************************************************************)
\* The file system a command finds: anything at the output path, no side-dump files
FileSystem(f) ==
    [p \in Paths |-> IF p = OutputJsonPath THEN f
                     ELSE IF p = DevNull THEN TextFile("")
                     ELSE Absent]

\* validate's call of config (line 256); check, ir and aconf take config's defaults
\* (line 259)
validate_args_NoExitOnError ==
    [output_json_path |-> DevNull, check |-> FALSE, ir |-> None, aconf |-> None,
     exit_on_error |-> FALSE]
validate_args ==
    [output_json_path |-> DevNull, check |-> FALSE, ir |-> None, aconf |-> None,
     exit_on_error |-> TRUE]

\* The order of the statements of config's regeneration (lines 310-340): the stage
\* that follows a stage that did not raise
StageAfter_AbortBeforeDump(stage) ==
    CASE stage = "fetch" -> "load_all"
      [] stage = "load_all" -> "abort_check"
      [] stage = "abort_check" -> "dump_aconf"
      [] stage = "dump_aconf" -> "ir"
      [] stage = "ir" -> "dump_ir"
      [] stage = "dump_ir" -> "encode"
      [] stage = "encode" -> "open_output"
      [] stage = "open_output" -> "write_output"
      [] stage = "write_output" -> "notices"
StageAfter(stage) ==
    CASE stage = "fetch" -> "load_all"
      [] stage = "load_all" -> "dump_aconf"
      [] stage = "dump_aconf" -> "abort_check"
      [] stage = "abort_check" -> "ir"
      [] stage = "ir" -> "dump_ir"
      [] stage = "dump_ir" -> "encode"
      [] stage = "encode" -> "open_output"
      [] stage = "open_output" -> "write_output"
      [] stage = "write_output" -> "notices"

\* The process starts: clize dispatches to config with the command line's parameters,
\* or to validate, which has no parameters of its own beyond the directory and k8s
Init ==
    /\ fpc = "idle"
    /\ FetchIdle
    /\ k8s \in BOOLEAN
    /\ cmd \in {"config", "validate"}
    /\ config_dir \in PipeDirs(k8s)
    /\ IF cmd = "config"
       THEN /\ pc = "check"
            /\ output_json_path = OutputJsonPath
            /\ check \in BOOLEAN
            /\ exit_on_error \in BOOLEAN
            /\ dump_aconf \in {None, AconfPath}
            /\ dump_ir \in {None, IrPath}
       ELSE /\ pc = "validate"
            /\ output_json_path = None
            /\ check = FALSE
            /\ exit_on_error = FALSE
            /\ dump_aconf = None
            /\ dump_ir = None
    /\ output_exists = FALSE
    /\ \E f \in OutputStates : files = FileSystem(f)
    /\ files0 = files
    /\ resources = <<>>
    /\ aconf = NoConfig
    /\ rc = FALSE
    /\ exc = NoExc
    /\ exit_code = NotExited
    /\ trace = <<>>
    /\ DumpIdle
    /\ Alone

\* validate calls config (line 256)
ValidateCall ==
    /\ pc = "validate"
    /\ pc' = "check"
    /\ output_json_path' = validate_args.output_json_path
    /\ check' = validate_args.check
    /\ exit_on_error' = validate_args.exit_on_error
    /\ dump_ir' = validate_args.ir
    /\ dump_aconf' = validate_args.aconf
    /\ UNCHANGED <<fvars, k8s, cmd, config_dir, argv, dump_flags, stdout, me, other,
                   output_exists, files, files0, resources, aconf, rc, exc, exit_code,
                   trace>>

\* check is not set: the existence check is bypassed (lines 281-283, 303-305)
NoCheck ==
    /\ pc = "check"
    /\ ~check
    /\ output_exists' = FALSE
    /\ rc' = RichStatus_fromError
    /\ pc' = IF Regenerate(FALSE) THEN "fetch" ELSE "notices"
    /\ UNCHANGED <<fvars, k8s, nvars, check, exit_on_error, dump_aconf, dump_ir, files, files0,
                   resources, aconf, exc, exit_code, trace>>

\* check is set: read the output file and parse it as JSON (lines 283-305)
CheckFreshness ==
    /\ pc = "check"
    /\ check
    /\ trace' = Append(trace, "read:" \o output_json_path)
    /\ LET raised == probe_exception(files[output_json_path]) IN
       IF raised = None
       THEN /\ output_exists' = TRUE
            /\ rc' = RichStatus_fromError
            /\ pc' = IF Regenerate(TRUE) THEN "fetch" ELSE "notices"
            /\ exc' = exc
       ELSE IF ProbeCaught(raised)
       THEN /\ output_exists' = FALSE
            /\ rc' = RichStatus_fromError
            /\ pc' = IF Regenerate(FALSE) THEN "fetch" ELSE "notices"
            /\ exc' = exc
       ELSE /\ output_exists' = TRUE
            /\ rc' = rc
            /\ pc' = "except"
            /\ exc' = Exc(raised, output_json_path, "probe")
    /\ UNCHANGED <<fvars, k8s, nvars, check, exit_on_error, dump_aconf, dump_ir, files, files0,
                   resources, aconf, exit_code>>

\* resources = fetch_resources(config_dir_path, k8s=k8s) (line 310)
Fetching ==
    /\ pc = "fetch"
    /\ trace' = Append(trace, "fetch_resources")
    /\ LET fetcher == ResourceFetcher(config_dir, k8s) IN
          /\ self' = fetcher
          /\ IF Raised(fetcher)
             THEN /\ exc' = fetcher.exc
                  /\ pc' = "except"
                  /\ resources' = resources
             ELSE /\ exc' = exc
                  /\ pc' = StageAfter("fetch")
                  /\ resources' = fetcher.resources
    /\ UNCHANGED <<fpc, rkey, obj, docno, fileno, todo_files, todo_docs, k8s, nvars, check,
                   exit_on_error, dump_aconf, dump_ir, output_exists, files, files0, aconf,
                   rc, exit_code>>

\* aconf = Config(); aconf.load_all(resources) (lines 311-312)
Validating ==
    /\ pc = "load_all"
    /\ trace' = Append(trace, "Config.load_all")
    /\ \E ok \in BOOLEAN, bad \in SUBSET DOMAIN resources :
          IF ok
          THEN /\ aconf' = Config_load_all(resources, bad)
               /\ pc' = StageAfter("load_all")
               /\ exc' = exc
          ELSE /\ bad = {}
               /\ aconf' = aconf
               /\ pc' = "except"
               /\ exc' = Exc("Exception", "Config.load_all", "validate")
    /\ UNCHANGED <<fvars, k8s, nvars, check, exit_on_error, dump_aconf, dump_ir, output_exists,
                   files, files0, resources, rc, exit_code>>

\* if dump_aconf: write aconf.as_json() to it (lines 314-317)
DumpAconf ==
    /\ pc = "dump_aconf"
    /\ IF Falsy(dump_aconf)
       THEN /\ pc' = StageAfter("dump_aconf")
            /\ UNCHANGED <<files, exc, trace>>
       ELSE /\ trace' = Append(trace, "write:" \o dump_aconf)
            /\ \E outcome \in WriteOutcomes :
                  /\ files' = write_file(files, dump_aconf, AconfJson, outcome)
                  /\ IF outcome = "ok"
                     THEN pc' = StageAfter("dump_aconf") /\ exc' = exc
                     ELSE pc' = "except" /\ exc' = Exc("Exception", outcome, "dump_aconf")
    /\ UNCHANGED <<fvars, k8s, nvars, check, exit_on_error, dump_aconf, dump_ir, output_exists,
                   files0, resources, aconf, rc, exit_code>>

\* if exit_on_error and aconf.errors: raise (lines 319-321)
AbortCheck ==
    /\ pc = "abort_check"
    /\ IF ShouldAbort(exit_on_error, aconf.errors)
       THEN /\ exc' = Exc("Exception", AbortMessage(aconf.errors), "abort")
            /\ pc' = "except"
       ELSE /\ exc' = exc
            /\ pc' = StageAfter("abort_check")
    /\ UNCHANGED <<fvars, k8s, nvars, check, exit_on_error, dump_aconf, dump_ir, output_exists,
                   files, files0, resources, aconf, rc, exit_code, trace>>

\* ir = IR(aconf) (line 323)
BuildingIR ==
    /\ pc = "ir"
    /\ trace' = Append(trace, "IR")
    /\ \E ok \in BOOLEAN :
          IF ok
          THEN pc' = StageAfter("ir") /\ exc' = exc
          ELSE pc' = "except" /\ exc' = Exc("Exception", "IR", "ir")
    /\ UNCHANGED <<fvars, k8s, nvars, check, exit_on_error, dump_aconf, dump_ir, output_exists,
                   files, files0, resources, aconf, rc, exit_code>>

\* if dump_ir: write ir.as_json() to it (lines 325-328)
DumpIR ==
    /\ pc = "dump_ir"
    /\ IF Falsy(dump_ir)
       THEN /\ pc' = StageAfter("dump_ir")
            /\ UNCHANGED <<files, exc, trace>>
       ELSE /\ trace' = Append(trace, "write:" \o dump_ir)
            /\ \E outcome \in WriteOutcomes :
                  /\ files' = write_file(files, dump_ir, IrJson, outcome)
                  /\ IF outcome = "ok"
                     THEN pc' = StageAfter("dump_ir") /\ exc' = exc
                     ELSE pc' = "except" /\ exc' = Exc("Exception", outcome, "dump_ir")
    /\ UNCHANGED <<fvars, k8s, nvars, check, exit_on_error, dump_aconf, dump_ir, output_exists,
                   files0, resources, aconf, rc, exit_code>>

\* v1config = V1Config(ir); rc = RichStatus.OK(msg="huh") (lines 330-331)
EncodingWireFormat ==
    /\ pc = "encode"
    /\ trace' = Append(trace, "V1Config")
    /\ \E ok \in BOOLEAN :
          IF ok
          THEN pc' = StageAfter("encode") /\ exc' = exc /\ rc' = RichStatus_OK
          ELSE pc' = "except" /\ exc' = Exc("Exception", "V1Config", "encode") /\ rc' = rc
    /\ UNCHANGED <<fvars, k8s, nvars, check, exit_on_error, dump_aconf, dump_ir, output_exists,
                   files, files0, resources, aconf, exit_code>>

\* if rc: open(output_json_path, "w"), which truncates the file; else log the error
\* (lines 333-334, 337-338)
OpenOutput ==
    /\ pc = "open_output"
    /\ IF rc
       THEN /\ trace' = Append(trace, "write:" \o output_json_path)
            /\ \E ok \in BOOLEAN :
                  IF ok
                  THEN /\ files' = open_w(files, output_json_path)
                       /\ pc' = StageAfter("open_output")
                       /\ exc' = exc
                  ELSE /\ files' = files
                       /\ pc' = "except"
                       /\ exc' = Exc("OSError", output_json_path, "write")
       ELSE /\ pc' = "notices"
            /\ UNCHANGED <<files, exc, trace>>
    /\ UNCHANGED <<fvars, k8s, nvars, check, exit_on_error, dump_aconf, dump_ir, output_exists,
                   files0, resources, aconf, rc, exit_code>>

\* output.write(v1config.as_json()); output.write("\n") (lines 335-336)
WriteOutput ==
    /\ pc = "write_output"
    /\ \E ok \in BOOLEAN :
          IF ok
          THEN /\ files' = write_payload(files, output_json_path, V1Json)
               /\ pc' = StageAfter("write_output")
               /\ exc' = exc
          ELSE /\ files' = files
               /\ pc' = "except"
               /\ exc' = Exc("Exception", "as_json_raises", "write")
    /\ UNCHANGED <<fvars, k8s, nvars, check, exit_on_error, dump_aconf, dump_ir, output_exists,
                   files0, resources, aconf, rc, exit_code, trace>>

\* show_notices() and the return from config: the process ends with status 0 (line 340)
ShowNotices ==
    /\ pc = "notices"
    /\ pc' = "returned"
    /\ exit_code' = 0
    /\ UNCHANGED <<fvars, k8s, nvars, check, exit_on_error, dump_aconf, dump_ir, output_exists,
                   files, files0, resources, aconf, rc, exc, trace>>

\* except Exception: handle_exception(...); sys.exit(1) (lines 341-346)
HandleException ==
    /\ pc = "except"
    /\ pc' = "exited"
    /\ exit_code' = 1
    /\ UNCHANGED <<fvars, k8s, nvars, check, exit_on_error, dump_aconf, dump_ir, output_exists,
                   files, files0, resources, aconf, rc, exc, trace>>

NextConfig ==
    \/ NoCheck
    \/ CheckFreshness
    \/ Fetching
    \/ Validating
    \/ DumpAconf
    \/ AbortCheck
    \/ BuildingIR
    \/ DumpIR
    \/ EncodingWireFormat
    \/ OpenOutput
    \/ WriteOutput
    \/ ShowNotices
    \/ HandleException

Next == ValidateCall \/ NextConfig

Spec == Init /\ [][Next]_vars

(***************************************************************************)
(* Two invocations of config on one file system                            *)
(* Each invocation is a process of its own; they share nothing but the     *)
(* files. The variables hold the invocation that is running, other holds   *)
(* the one that is not, and Switch is the operating system giving the      *)
(* processor to the other one. The code takes no lock and makes no other   *)
(* system call that could order the two.                                   *)
(***************************************************************************)
\* What belongs to one invocation: config's parameters and locals
Locals ==
    [pc |-> pc, cmd |-> cmd, k8s |-> k8s, config_dir |-> config_dir,
     output_json_path |-> output_json_path, check |-> check,
     exit_on_error |-> exit_on_error, dump_aconf |-> dump_aconf, dump_ir |-> dump_ir,
     output_exists |-> output_exists, self |-> self, resources |-> resources,
     aconf |-> aconf, rc |-> rc, exc |-> exc, exit_code |-> exit_code, trace |-> trace]

\* The directory both invocations of SpecRace read: one file with one document
RaceDir == [exists |-> TRUE, entries |-> <<Entry(TRUE, TRUE, YamlText(<<M1>>))>>]

\* An invocation of config on OutputJsonPath that has not started
Started(chk) ==
    [pc |-> "check", cmd |-> "config", k8s |-> FALSE, config_dir |-> RaceDir,
     output_json_path |-> OutputJsonPath, check |-> chk, exit_on_error |-> FALSE,
     dump_aconf |-> None, dump_ir |-> None, output_exists |-> FALSE, self |-> NewFetcher,
     resources |-> <<>>, aconf |-> NoConfig, rc |-> FALSE, exc |-> NoExc,
     exit_code |-> NotExited, trace |-> <<>>]

\* The variables hold invocation r
Running(r) ==
    /\ pc = r.pc
    /\ cmd = r.cmd
    /\ k8s = r.k8s
    /\ config_dir = r.config_dir
    /\ output_json_path = r.output_json_path
    /\ check = r.check
    /\ exit_on_error = r.exit_on_error
    /\ dump_aconf = r.dump_aconf
    /\ dump_ir = r.dump_ir
    /\ output_exists = r.output_exists
    /\ self = r.self
    /\ resources = r.resources
    /\ aconf = r.aconf
    /\ rc = r.rc
    /\ exc = r.exc
    /\ exit_code = r.exit_code
    /\ trace = r.trace

InitRace ==
    /\ fpc = "idle"
    /\ rkey = None /\ obj = NoObj /\ docno = 0 /\ fileno = 0
    /\ todo_files = 0 /\ todo_docs = 0
    /\ DumpIdle
    /\ me = 1
    /\ \E chk \in BOOLEAN : Running(Started(chk))
    /\ \E chk \in BOOLEAN : other = Started(chk)
    /\ \E f \in OutputStates : files = FileSystem(f)
    /\ files0 = files

\* The other process runs next
Switch ==
    /\ other.pc # "none"
    /\ me' = 3 - me
    /\ other' = Locals
    /\ pc' = other.pc
    /\ cmd' = other.cmd
    /\ k8s' = other.k8s
    /\ config_dir' = other.config_dir
    /\ output_json_path' = other.output_json_path
    /\ check' = other.check
    /\ exit_on_error' = other.exit_on_error
    /\ dump_aconf' = other.dump_aconf
    /\ dump_ir' = other.dump_ir
    /\ output_exists' = other.output_exists
    /\ self' = other.self
    /\ resources' = other.resources
    /\ aconf' = other.aconf
    /\ rc' = other.rc
    /\ exc' = other.exc
    /\ exit_code' = other.exit_code
    /\ trace' = other.trace
    /\ UNCHANGED <<fpc, rkey, obj, docno, fileno, todo_files, todo_docs, files, files0,
                   argv, dump_flags, stdout>>

NextRace == NextConfig \/ Switch

SpecRace == InitRace /\ [][NextRace]_vars

(***************************************************************************)
(* dump, stage by stage                                                    *)
(***************************************************************************)
\* What dump never touches: config's parameters and locals, the file system (dump
\* opens no file), the invocation's parameters
dump_frame == <<fvars, k8s, check, exit_on_error, dump_aconf, dump_ir, output_exists, rc,
                files, files0, cmd, config_dir, output_json_path, argv, me, other>>

\* if not (aconf or ir or v1): ir = True (lines 215-216)
DefaultIr_Never(a) == FALSE
DefaultIr(a) == ~(a.aconf \/ a.ir \/ a.v1)

\* if dump_v1: the guard of V1Config(ir) and of its print (line 237)
BuildsV1_Always(flags) == TRUE
BuildsV1(flags) == flags.dump_v1

\* json.dump(artifact.as_dict(), sys.stdout, sort_keys=True, indent=4);
\* sys.stdout.write("\n")
json_dump(artifact) == "json.dump:" \o artifact
print_artifact(out, artifact) == out \o <<json_dump(artifact), "\n">>

InitDump ==
    /\ fpc = "idle"
    /\ FetchIdle
    /\ k8s \in BOOLEAN
    /\ cmd = "dump"
    /\ config_dir \in PipeDirs(k8s)
    /\ argv \in [aconf : BOOLEAN, ir : BOOLEAN, v1 : BOOLEAN]
    /\ dump_flags = NoDumpFlags
    /\ stdout = <<>>
    /\ pc = "dump"
    /\ output_json_path = None
    /\ check = FALSE
    /\ exit_on_error = FALSE
    /\ dump_aconf = None
    /\ dump_ir = None
    /\ output_exists = FALSE
    /\ \E f \in OutputStates : files = FileSystem(f)
    /\ files0 = files
    /\ resources = <<>>
    /\ aconf = NoConfig
    /\ rc = FALSE
    /\ exc = NoExc
    /\ exit_code = NotExited
    /\ trace = <<>>
    /\ Alone

\* the defaulting of ir and the locals dump_aconf, dump_ir, dump_v1 (lines 215-220)
DumpSelect ==
    /\ pc = "dump"
    /\ LET ir == IF DefaultIr(argv) THEN TRUE ELSE argv.ir IN
       dump_flags' = [dump_aconf |-> argv.aconf, dump_ir |-> ir, dump_v1 |-> argv.v1]
    /\ pc' = "dump:fetch"
    /\ UNCHANGED <<dump_frame, self, resources, aconf, exc, exit_code, trace, stdout>>

\* resources = fetch_resources(config_dir_path, k8s=k8s) (line 223)
DumpFetching ==
    /\ pc = "dump:fetch"
    /\ trace' = Append(trace, "fetch_resources")
    /\ LET fetcher == ResourceFetcher(config_dir, k8s) IN
          /\ self' = fetcher
          /\ IF Raised(fetcher)
             THEN /\ exc' = fetcher.exc
                  /\ pc' = "dump:except"
                  /\ resources' = resources
             ELSE /\ exc' = exc
                  /\ pc' = "dump:load_all"
                  /\ resources' = fetcher.resources
    /\ UNCHANGED <<fpc, rkey, obj, docno, fileno, todo_files, todo_docs, k8s, check,
                   exit_on_error, dump_aconf, dump_ir, output_exists, rc, files, files0,
                   cmd, config_dir, output_json_path, argv, me, other, dump_flags,
                   aconf, exit_code, stdout>>

\* aconf = Config(); aconf.load_all(resources) (lines 224-225)
DumpValidating ==
    /\ pc = "dump:load_all"
    /\ trace' = Append(trace, "Config.load_all")
    /\ \E ok \in BOOLEAN, bad \in SUBSET DOMAIN resources :
          IF ok
          THEN /\ aconf' = Config_load_all(resources, bad)
               /\ pc' = "dump:print_aconf"
               /\ exc' = exc
          ELSE /\ bad = {}
               /\ aconf' = aconf
               /\ pc' = "dump:except"
               /\ exc' = Exc("Exception", "Config.load_all", "validate")
    /\ UNCHANGED <<dump_frame, self, resources, exit_code, dump_flags, stdout>>

\* if dump_aconf: print aconf.as_dict() (lines 227-229)
DumpPrintAconf ==
    /\ pc = "dump:print_aconf"
    /\ IF dump_flags.dump_aconf
       THEN \E ok \in BOOLEAN :
               IF ok
               THEN /\ stdout' = print_artifact(stdout, "aconf")
                    /\ pc' = "dump:ir"
                    /\ exc' = exc
               ELSE /\ stdout' = stdout
                    /\ pc' = "dump:except"
                    /\ exc' = Exc("Exception", "aconf.as_dict", "print_aconf")
       ELSE /\ pc' = "dump:ir"
            /\ UNCHANGED <<stdout, exc>>
    /\ UNCHANGED <<dump_frame, self, resources, aconf, exit_code, trace, dump_flags>>

\* ir = IR(aconf) (line 231)
DumpBuildingIR ==
    /\ pc = "dump:ir"
    /\ trace' = Append(trace, "IR")
    /\ \E ok \in BOOLEAN :
          IF ok
          THEN pc' = "dump:print_ir" /\ exc' = exc
          ELSE pc' = "dump:except" /\ exc' = Exc("Exception", "IR", "ir")
    /\ UNCHANGED <<dump_frame, self, resources, aconf, exit_code, dump_flags, stdout>>

\* if dump_ir: print ir.as_dict() (lines 233-235)
DumpPrintIR ==
    /\ pc = "dump:print_ir"
    /\ IF dump_flags.dump_ir
       THEN \E ok \in BOOLEAN :
               IF ok
               THEN /\ stdout' = print_artifact(stdout, "ir")
                    /\ pc' = "dump:v1"
                    /\ exc' = exc
               ELSE /\ stdout' = stdout
                    /\ pc' = "dump:except"
                    /\ exc' = Exc("Exception", "ir.as_dict", "print_ir")
       ELSE /\ pc' = "dump:v1"
            /\ UNCHANGED <<stdout, exc>>
    /\ UNCHANGED <<dump_frame, self, resources, aconf, exit_code, trace, dump_flags>>

\* if dump_v1: v1config = V1Config(ir) (lines 237-238)
DumpEncodingWireFormat ==
    /\ pc = "dump:v1"
    /\ IF BuildsV1(dump_flags)
       THEN /\ trace' = Append(trace, "V1Config")
            /\ \E ok \in BOOLEAN :
                  IF ok
                  THEN pc' = "dump:print_v1" /\ exc' = exc
                  ELSE pc' = "dump:except" /\ exc' = Exc("Exception", "V1Config", "encode")
       ELSE /\ pc' = "dump:return"
            /\ UNCHANGED <<trace, exc>>
    /\ UNCHANGED <<dump_frame, self, resources, aconf, exit_code, dump_flags, stdout>>

\* print v1config.as_dict(), inside if dump_v1 (lines 239-240)
DumpPrintV1 ==
    /\ pc = "dump:print_v1"
    /\ \E ok \in BOOLEAN :
          IF ok
          THEN /\ stdout' = print_artifact(stdout, "v1config")
               /\ pc' = "dump:return"
               /\ exc' = exc
          ELSE /\ stdout' = stdout
               /\ pc' = "dump:except"
               /\ exc' = Exc("Exception", "v1config.as_dict", "print_v1")
    /\ UNCHANGED <<dump_frame, self, resources, aconf, exit_code, trace, dump_flags>>

\* the try block ends and dump returns: the process ends with status 0
DumpReturn ==
    /\ pc = "dump:return"
    /\ pc' = "returned"
    /\ exit_code' = 0
    /\ UNCHANGED <<dump_frame, self, resources, aconf, exc, trace, dump_flags, stdout>>

\* except Exception: handle_exception(...); sys.exit(1) (lines 242-247)
DumpHandleException ==
    /\ pc = "dump:except"
    /\ pc' = "exited"
    /\ exit_code' = 1
    /\ UNCHANGED <<dump_frame, self, resources, aconf, exc, trace, dump_flags, stdout>>

NextDump ==
    \/ DumpSelect
    \/ DumpFetching
    \/ DumpValidating
    \/ DumpPrintAconf
    \/ DumpBuildingIR
    \/ DumpPrintIR
    \/ DumpEncodingWireFormat
    \/ DumpPrintV1
    \/ DumpReturn
    \/ DumpHandleException

SpecDump == InitDump /\ [][NextDump]_vars

(***************************************************************************)
(* Claims about fetch_resources (SpecFetch)                                *)
(***************************************************************************)
\* A step of the file-level load_yaml loop (LoadDoc), read off the state
LoadDocStep == fpc = "docs" /\ docno' = docno + 1

Last(seq) == seq[Len(seq)]

\* The keys of a resource sequence
KeysOf(rs) == [i \in DOMAIN rs |-> rs[i].rkey]

\* C1: in flat mode the k-th document of file f is appended, in order, as a resource
\* keyed "f.k", so the keys of a run are pairwise distinct.
C1_FlatKeysPerDocument ==
    (~k8s /\ fpc = "docs") =>
        /\ docno > 0 =>
              /\ Len(self.resources) >= docno
              /\ Last(self.resources).obj = obj
              /\ Last(self.resources).rkey = FileName(fileno) \o "." \o ToString(docno)
        /\ \A i, j \in DOMAIN self.resources :
              i # j => self.resources[i].rkey # self.resources[j].rkey

\* The documents of a Service's config annotation, each keyed by the Service's
\* name and namespace ("default" when metadata.namespace is absent)
ServiceNamespace(o) ==
    IF "namespace" \in DOMAIN o.metadata THEN o.metadata.namespace ELSE "default"
ExpectedOfService(o) ==
    LET docs == o.metadata.annotations[ConfigAnnotation].docs
        key == o.metadata.name \o "." \o ServiceNamespace(o)
    IN [i \in DOMAIN docs |-> [rkey |-> key, location |-> key, obj |-> docs[i]]]

\* A Service with a name and a config annotation that is YAML
AnnotatedService(o) ==
    /\ "kind" \in DOMAIN o /\ o.kind = "Service"
    /\ "metadata" \in DOMAIN o
    /\ "name" \in DOMAIN o.metadata
    /\ "annotations" \in DOMAIN o.metadata
    /\ ConfigAnnotation \in DOMAIN o.metadata.annotations
    /\ o.metadata.annotations[ConfigAnnotation].wellformed

\* C2: in Kubernetes mode a Service with name n, namespace ns ("default" when absent)
\* and a config annotation of k documents appends exactly k resources, in annotation
\* order, each keyed "n.ns", whatever the file, the file name's suffix and the position.
C2_ServiceAnnotationKeys ==
    [][(LoadDocStep /\ k8s /\ AnnotatedService(obj')) =>
          /\ self'.resources = self.resources \o ExpectedOfService(obj')
          /\ ~Raised(self')]_vars

\* C2 witness: in the second file, after a Service in namespace ns1 with two annotation
\* documents, a Service without namespace has appended its document keyed "svc2.default".
C2_Witness ==
    /\ k8s /\ fpc = "docs" /\ fileno = 2 /\ docno = 2 /\ obj = SvcB
    /\ KeysOf(self.resources) = <<"svc1.ns1", "svc1.ns1", "svc2.default">>
    /\ [i \in 1..3 |-> self.resources[i].obj] = <<M1, M2, M2>>
    /\ self.filename = "f2.yaml:annotation:annotation"

\* A document whose kind is not exactly "Service"
NonService(o) == "kind" \notin DOMAIN o \/ o.kind # "Service"

IncompleteService(o) ==
    /\ "kind" \in DOMAIN o /\ o.kind = "Service"
    /\ \/ "metadata" \notin DOMAIN o
       \/ "name" \notin DOMAIN o.metadata
       \/ "annotations" \notin DOMAIN o.metadata
       \/ ConfigAnnotation \notin DOMAIN o.metadata.annotations

\* C9: in Kubernetes mode an incomplete Service adds no resource and raises nothing,
\* and the document after it is processed as usual: an annotated Service then appends
\* its annotation's documents.
C9_IncompleteServiceSkipped ==
    [][(LoadDocStep /\ k8s) =>
          /\ IncompleteService(obj') =>
                /\ self'.resources = self.resources
                /\ ~Raised(self')
                /\ fpc' = "docs"
          /\ (obj # NoObj /\ IncompleteService(obj) /\ AnnotatedService(obj')) =>
                Len(self'.resources) = Len(self.resources) + Len(ExpectedOfService(obj'))]_vars

\* C9 witness: in the second file a Service without name was skipped and the Service
\* after it has appended its two resources.
C9_Witness ==
    /\ k8s /\ fpc = "docs" /\ fileno = 2 /\ docno = 2 /\ obj = SvcA
    /\ self.ocount = 5
    /\ KeysOf(self.resources) = <<"svc1.ns1", "svc1.ns1">>
    /\ ~Raised(self)

(***************************************************************************)
(* Claims about config (Spec)                                              *)
(***************************************************************************)
Terminal == pc \in {"returned", "exited"}

InTrace(event) == \E i \in DOMAIN trace : trace[i] = event

\* The output file, as config found it, can be read and parses as JSON
FreshAtStart ==
    /\ files0[OutputJsonPath].state = "text"
    /\ files0[OutputJsonPath].text \in {OldJson, V1Json \o "\n"}

\* C3: in check mode with an output file that reads and parses as JSON, config opens
\* no file for writing, calls none of fetch, validation, IR and encoding, leaves every
\* file as it was and ends with status 0.
C3_FreshCheckIsNoOp ==
    (check /\ FreshAtStart) =>
        /\ files = files0
        /\ \A i \in DOMAIN trace : trace[i] = "read:" \o OutputJsonPath
        /\ pc \in {"check", "notices", "returned"}
        /\ exit_code \in {NotExited, 0}
        /\ pc = "returned" => exit_code = 0

\* C3 witness: a check-mode invocation on a valid JSON output file has returned.
C3_Witness ==
    /\ check /\ files0[OutputJsonPath] = TextFile(OldJson)
    /\ pc = "returned" /\ exit_code = 0 /\ output_exists
    /\ trace = <<"read:" \o OutputJsonPath>>
    /\ files[OutputJsonPath] = TextFile(OldJson)

\* C4: in check mode the output is treated as fresh exactly when it reads and parses;
\* in every other probe outcome the invocation runs the regeneration, and a
\* regeneration that runs to its end leaves the new wire-format payload at the output
\* path.
C4_StaleRegenerates ==
    (check /\ Terminal) =>
        /\ FreshAtStart <=> (pc = "returned" /\ ~InTrace("fetch_resources"))
        /\ ~FreshAtStart => InTrace("fetch_resources")
        /\ (~FreshAtStart /\ exc = NoExc) =>
              files[OutputJsonPath] = TextFile(V1Json \o "\n")

\* C5: no failure of the check-mode probe reaches config's exception handler: the
\* probe alone never makes the process exit with status 1.
C5_ProbeNeverFatal == ~(pc \in {"except", "exited"} /\ exc.stage = "probe")

\* C6: when the error ledger is not empty, config without exit_on_error still builds
\* the IR and the wire format and writes the output file (it never aborts on the
\* ledger; only a stage that raises stops it), and
\* config with exit_on_error never calls the IR or the encoder, leaves the output file
\* as it was and exits with status 1.
C6_AbortOnValidationErrors ==
    (Terminal /\ aconf.errors # <<>>) =>
        /\ ~exit_on_error =>
              /\ exc.stage # "abort"
              /\ exc.stage # "dump_aconf" => InTrace("IR")
              /\ exc = NoExc =>
                    /\ exit_code = 0
                    /\ InTrace("V1Config")
                    /\ files[OutputJsonPath] = TextFile(V1Json \o "\n")
        /\ exit_on_error =>
              /\ exit_code = 1
              /\ ~InTrace("IR") /\ ~InTrace("V1Config")
              /\ ~InTrace("write:" \o OutputJsonPath)
              /\ files[OutputJsonPath] = files0[OutputJsonPath]

\* C6 witness: without exit_on_error a run whose ledger has an entry has written the
\* wire format and returned.
C6_Witness ==
    /\ ~exit_on_error /\ Len(aconf.errors) = 1 /\ pc = "returned" /\ exit_code = 0
    /\ files0[OutputJsonPath] = Absent
    /\ files[OutputJsonPath] = TextFile(V1Json \o "\n")

HasErrors(entry) == entry.errors # <<>>
KeysWithErrors(ledger) ==
    LET failing == SelectSeq(ledger, HasErrors)
    IN [i \in DOMAIN failing |-> failing[i].key]

\* C7: the abort on validation errors happens only with exit_on_error, after every
\* fetched resource was handed to load_all, and its message lists exactly the keys
\* that have a recorded error.
C7_AggregateThenAbort ==
    exc.stage = "abort" =>
        /\ exit_on_error
        /\ InTrace("Config.load_all")
        /\ aconf.loaded = self.resources
        /\ KeysWithErrors(aconf.errors) # <<>>
        /\ exc.msg = "errors in: " \o join(", ", KeysWithErrors(aconf.errors))

\* C7 witness: three resources under two keys were loaded, the first and the last
\* failed validation, and the run aborted naming both keys.
C7_Witness ==
    /\ pc = "exited" /\ exc.stage = "abort" /\ exit_code = 1
    /\ KeysOf(aconf.loaded) = <<"svc1.ns1", "svc1.ns1", "svc2.default">>
    /\ aconf.errors = <<[key |-> "svc1.ns1", errors |-> <<"invalid">>],
                        [key |-> "svc2.default", errors |-> <<"invalid">>]>>
    /\ exc.msg = "errors in: svc1.ns1, svc2.default"

\* C10: config ends in exactly one of FreshNoOp or DONE (status 0) or FATAL (status 1),
\* and status 1 occurs exactly when fetch, validation, a side-dump write, the IR, the
\* encoder or the output write raised, or the abort on validation errors was triggered.
C10_TerminalOutcomes ==
    /\ exit_code \in {NotExited, 0, 1}
    /\ ~Terminal => exit_code = NotExited
    /\ pc = "returned" => exit_code = 0
    /\ pc = "exited" => exit_code = 1
    /\ exit_code = 1 <=>
          /\ pc = "exited"
          /\ exc.stage \in {"fetch", "validate", "dump_aconf", "abort", "ir", "dump_ir",
                            "encode", "write"}

(***************************************************************************)
(* Claims about dump (SpecDump)                                            *)
(***************************************************************************)
IsPrefix(s, t) == Len(s) <= Len(t) /\ \A i \in DOMAIN s : s[i] = t[i]

DumpStages == <<"fetch_resources", "Config.load_all", "IR", "V1Config">>

\* C11 as stated: every dump invocation calls fetch, validation, the IR and the
\* wire-format encoder, in that order, whatever the flags; a dump that returns has
\* called all four.
C11_DumpBuildsAllStages ==
    cmd = "dump" =>
        /\ IsPrefix(trace, DumpStages)
        /\ pc = "returned" => trace = DumpStages

\* The stages dump calls for its flags: the encoder only when the wire format is to
\* be printed
DumpStagesFor(flags) ==
    <<"fetch_resources", "Config.load_all", "IR">>
        \o (IF flags.dump_v1 THEN <<"V1Config">> ELSE <<>>)

\* C11 amended: every dump invocation calls fetch, then validation, then the IR, in
\* that order and whatever the flags, and calls the wire-format encoder after them
\* exactly when the wire-format flag is set; a stage that raises ends dump with status
\* 1, and the encoder can do so only when the wire-format flag is set.
C11_DumpStageSequence ==
    (cmd = "dump" /\ pc # "dump") =>
        /\ IsPrefix(trace, DumpStagesFor(dump_flags))
        /\ pc = "returned" => (trace = DumpStagesFor(dump_flags) /\ exc = NoExc)
        /\ exc # NoExc => pc \in {"dump:except", "exited"}
        /\ pc = "exited" => (exit_code = 1 /\ exc # NoExc)
        /\ exc.stage = "encode" => dump_flags.dump_v1

\* C11 witness: a dump asked for the validated config only has returned with status 0
\* after fetch, validation and the IR, without calling the encoder.
C11_Witness ==
    /\ cmd = "dump" /\ pc = "returned" /\ exit_code = 0
    /\ argv = [aconf |-> TRUE, ir |-> FALSE, v1 |-> FALSE]
    /\ trace = <<"fetch_resources", "Config.load_all", "IR">>
    /\ stdout = <<"json.dump:aconf", "\n">>

\* What a dump with parameters a prints: the flagged artifacts in the order validated
\* config, IR, wire format; the IR alone when no flag is set
Chunk(flag, artifact) == IF flag THEN <<"json.dump:" \o artifact, "\n">> ELSE <<>>
ExpectedStdout(a) ==
    IF ~a.aconf /\ ~a.ir /\ ~a.v1
    THEN Chunk(TRUE, "ir")
    ELSE Chunk(a.aconf, "aconf") \o Chunk(a.ir, "ir") \o Chunk(a.v1, "v1config")

\* C12: a dump that succeeds has printed exactly the artifacts whose flag is set, in
\* the order validated config, IR, wire format, and the IR alone when no flag is set;
\* on no path does dump open a file for writing or change a file.
C12_DumpOutputSelection ==
    cmd = "dump" =>
        /\ pc = "returned" => stdout = ExpectedStdout(argv)
        /\ IsPrefix(stdout, ExpectedStdout(argv))
        /\ files = files0
        /\ \A i \in DOMAIN trace : trace[i] \in {"fetch_resources", "Config.load_all",
                                                 "IR", "V1Config"}

\* C12 witness: a dump without flags has returned having printed the IR alone, with an
\* output file of an earlier run left as it was.
C12_Witness ==
    /\ cmd = "dump" /\ pc = "returned" /\ argv = NoFlags
    /\ stdout = <<"json.dump:ir", "\n">>
    /\ files[OutputJsonPath] = TextFile(OldJson)

(***************************************************************************)
(* Claims about validate and the order of config's stages (Spec)           *)
(***************************************************************************)
\* C13: validate is config with the output path set to the null device, check mode
\* off, no side-dump paths and exit_on_error on: it never probes, always fetches and
\* validates, changes no file, goes through every stage when it returns, and exits
\* with status 1, before the IR, whenever the error ledger is not empty.
C13_ValidateIsConfigRestricted ==
    (cmd = "validate" /\ pc # "validate") =>
        /\ output_json_path = DevNull
        /\ ~check /\ exit_on_error
        /\ dump_aconf = None /\ dump_ir = None
        /\ ~output_exists
        /\ pc \notin {"check", "fetch"} => (trace # <<>> /\ trace[1] = "fetch_resources")
        /\ files = files0
        /\ pc = "returned" =>
              /\ exit_code = 0
              /\ aconf.errors = <<>>
              /\ trace = <<"fetch_resources", "Config.load_all", "IR", "V1Config",
                           "write:" \o DevNull>>
        /\ (Terminal /\ aconf.errors # <<>>) =>
              /\ exit_code = 1
              /\ exc.stage = "abort"
              /\ trace = <<"fetch_resources", "Config.load_all">>

\* C13 witness: a validate whose ledger has an entry has exited with status 1 on the
\* abort, and the file at config's usual output path is as it was.
C13_Witness ==
    /\ cmd = "validate" /\ pc = "exited" /\ exit_code = 1
    /\ Len(aconf.errors) = 1 /\ exc.stage = "abort"
    /\ files[OutputJsonPath] = TextFile(OldJson)

\* The events of a regeneration with config's parameters, in the order of the claim:
\* (the probe's read,) fetch, validation, (the validated-config side-dump,) the IR,
\* (the IR side-dump,) the encoder, the write of the main output
Opt(path) == IF Falsy(path) THEN <<>> ELSE <<"write:" \o path>>
UpToAbortCheck ==
    (IF check THEN <<"read:" \o output_json_path>> ELSE <<>>)
        \o <<"fetch_resources", "Config.load_all">> \o Opt(dump_aconf)
ExpectedTrace ==
    UpToAbortCheck \o <<"IR">> \o Opt(dump_ir)
        \o <<"V1Config", "write:" \o output_json_path>>

\* C14: when the regeneration runs, its stages occur in the order fetch, validation,
\* (write of the validated-config side-dump), abort check, IR, (write of the IR
\* side-dump), encoder, write of the main output, none skipped or reordered; the
\* validated-config side-dump is written before the abort check, so it is on disk
\* when the run aborts on validation errors.
C14_StageAndWriteOrder ==
    (cmd \in {"config", "validate"} /\ pc # "validate") =>
        /\ IsPrefix(trace, ExpectedTrace)
        /\ (pc = "returned" /\ InTrace("fetch_resources")) => trace = ExpectedTrace
        /\ exc.stage = "abort" =>
              /\ trace = UpToAbortCheck
              /\ ~Falsy(dump_aconf) => files[dump_aconf] = TextFile(AconfJson \o "\n")
        /\ pc \in {"ir", "dump_ir", "encode", "open_output", "write_output"} =>
              ~ShouldAbort(exit_on_error, aconf.errors)

\* C14 witness: a run with a validated-config side-dump path and exit_on_error has
\* aborted on a ledger entry; the side-dump is on disk, the main output is not.
C14_Witness ==
    /\ cmd = "config" /\ pc = "exited" /\ exc.stage = "abort"
    /\ dump_aconf = AconfPath /\ dump_ir = IrPath
    /\ files[AconfPath] = TextFile(AconfJson \o "\n")
    /\ files[IrPath] = Absent
    /\ files[OutputJsonPath] = Absent
    /\ trace = <<"fetch_resources", "Config.load_all", "write:" \o AconfPath>>

\* The run ended in the handler because v1config.as_json() raised, after the main
\* output was opened
SerializationRaised == exc.stage = "write" /\ exc.msg = "as_json_raises"

\* C15 as stated: when config exits on the abort on validation errors or because
\* fetch, validation, the IR, the encoder or the serialization of the wire format
\* raised, the file at the main output path is as it was before the invocation.
C15_OutputUntouchedOnFailure ==
    (cmd = "config" /\ pc = "exited"
        /\ (exc.stage \in {"abort", "fetch", "validate", "ir", "encode"}
            \/ SerializationRaised)) =>
        files[OutputJsonPath] = files0[OutputJsonPath]

\* C15 amended: when config exits on the abort on validation errors or because fetch,
\* validation, the IR or the encoder raised, the file at the main output path is as
\* it was before the invocation (neither created, truncated nor overwritten), and
\* the main output was never opened; when the serialization of the wire format raises,
\* the file was already opened for writing and is left empty, whatever it held.
C15_OutputUntouchedBeforeOpen ==
    (cmd = "config" /\ pc = "exited") =>
        /\ exc.stage \in {"abort", "fetch", "validate", "ir", "encode"} =>
              /\ files[OutputJsonPath] = files0[OutputJsonPath]
              /\ ~InTrace("write:" \o OutputJsonPath)
        /\ SerializationRaised =>
              /\ files[OutputJsonPath] = TextFile("")
              /\ Last(trace) = "write:" \o OutputJsonPath

\* C15 witness: the encoder raised in a run that found an output file of an earlier
\* run, and the file still holds what it held.
C15_Witness ==
    /\ cmd = "config" /\ pc = "exited" /\ exit_code = 1 /\ exc.stage = "encode"
    /\ files0[OutputJsonPath] = TextFile(OldJson)
    /\ files[OutputJsonPath] = TextFile(OldJson)
    /\ InTrace("V1Config")

\* C16: when reading or parsing one regular file of the directory fails, the fetch
\* raises an error that identifies that file, no resource (of the files already
\* parsed either) reaches validation, no file is written and the command exits with
\* status 1.
C16_FetchAllOrNothing ==
    (cmd \in {"config", "validate"} /\ exc.stage = "fetch" /\ self.filepath # None) =>
        /\ exc.msg = self.filepath
        /\ resources = <<>>
        /\ aconf = NoConfig
        /\ ~InTrace("Config.load_all")
        /\ files = files0
        /\ pc \in {"except", "exited"}
        /\ pc = "exited" => exit_code = 1

\* C17: in check mode on an output file that reads and parses, the decision and the
\* outcome depend on nothing but that file: whatever the input directory (missing,
\* unreadable, malformed, invalid or valid resources), the Kubernetes flag, the
\* side-dump paths and exit_on_error, the directory is never listed, no stage is
\* called, and the invocation ends as a no-op with status 0 and every file unchanged.
C17_WeakStaleness ==
    (cmd = "config" /\ check /\ FreshAtStart) =>
        /\ pc # "check" => output_exists
        /\ self = NewFetcher /\ resources = <<>> /\ aconf = NoConfig
        /\ exc = NoExc
        /\ Terminal =>
              <<pc, exit_code, trace, files>> =
                  <<"returned", 0, <<"read:" \o OutputJsonPath>>, files0>>

\* C17 witness: with exit_on_error set and an input directory that does not exist, a
\* check-mode invocation on a fresh output file has returned with status 0.
C17_Witness ==
    /\ cmd = "config" /\ check /\ exit_on_error /\ ~config_dir.exists
    /\ files0[OutputJsonPath] = TextFile(OldJson)
    /\ pc = "returned" /\ exit_code = 0
    /\ files = files0

(***************************************************************************)
(* More claims about fetch_resources (SpecFetchFair, SpecFetch)            *)
(***************************************************************************)
FetchDone == fpc \in {"returned", "raised"}

\* The resources appended by a step
Appended == SubSeq(self'.resources, Len(self.resources) + 1, Len(self'.resources))

\* C18: the nested parse of an annotation runs in flat style: every document of the
\* annotation, also one that is itself a Service with a config annotation, is appended
\* as one resource and not expanded again; there are never more than two load_yaml
\* calls on the stack, and the fetch of a directory ends (it returns or raises).
C18_AnnotationOneLevel ==
    /\ [](self.depth <= 2 /\ self.maxdepth <= 2)
    /\ [][(LoadDocStep /\ k8s /\ AnnotatedService(obj')) =>
             LET docs == obj'.metadata.annotations[ConfigAnnotation].docs IN
             /\ Len(Appended) = Len(docs)
             /\ \A i \in DOMAIN docs : Appended[i].obj = docs[i]
             /\ docs # <<>> => self'.maxdepth = 2
             /\ self'.depth = 1]_vars
    /\ <>FetchDone

\* C18 witness: a Service whose annotation holds an annotated Service was processed;
\* the inner Service is the one resource appended, keyed by the outer Service, with
\* two load_yaml calls at most on the stack.
C18_Witness ==
    /\ k8s /\ fpc = "docs" /\ obj = SvcNested
    /\ Len(self.resources) = 1
    /\ self.resources[1].obj = SvcB
    /\ self.resources[1].rkey = "svc3.default"
    /\ self.maxdepth = 2 /\ self.depth = 1

\* The number of documents a step of the file-level loop ingests: the document itself
\* in flat mode; in Kubernetes mode the documents of a Service's config annotation
Ingested(o, mode) ==
    IF ~mode THEN 1
    ELSE IF AnnotatedService(o)
    THEN Len(o.metadata.annotations[ConfigAnnotation].docs)
    ELSE 0

\* C20: fetch never drops, merges or reorders resources: every step keeps the
\* resources it found, in their order, and a step of the loop appends one resource per
\* document it ingests, colliding keys or not; so the length of the sequence is the
\* number of ingested documents.
C20_NoDeduplication ==
    [][/\ IsPrefix(self.resources, self'.resources)
       /\ (LoadDocStep /\ ~Raised(self')) =>
             Len(self'.resources) = Len(self.resources) + Ingested(obj', k8s)
       /\ ~LoadDocStep => self'.resources = self.resources]_vars

\* C20 witness: two files hold the same Service; its two annotation documents are in
\* the sequence twice, in ingestion order, all four under the key "svc1.ns1".
C20_Witness ==
    /\ k8s /\ fpc = "returned" /\ fileno = 2
    /\ KeysOf(self.resources) = <<"svc1.ns1", "svc1.ns1", "svc1.ns1", "svc1.ns1">>
    /\ [i \in 1..4 |-> self.resources[i].obj] = <<M1, M2, M1, M2>>

(***************************************************************************)
(* Claim about two invocations (SpecRace)                                  *)
(***************************************************************************)
\* The running invocation opens the main output for writing
OpensOutput == me' = me /\ pc = "open_output" /\ pc' = "write_output"

\* C19: nothing orders two invocations on the same output path: the open for writing
\* is taken whatever the other invocation is doing or has concluded, it leaves the
\* other invocation as it is, and from that step until the payload is written the
\* file does not parse; so a check-mode invocation can have judged the file fresh and
\* finished as a no-op while the file is truncated.
C19_NoExclusion ==
    /\ [](pc = "open_output" => ENABLED OpenOutput)
    /\ [][OpensOutput =>
             /\ files'[OutputJsonPath] = TextFile("")
             /\ ~json_loads_ok(files'[OutputJsonPath].text)
             /\ probe_exception(files'[OutputJsonPath]) = "JSONDecodeError"
             /\ other' = other]_vars

\* C19 witness: the check-mode invocation found the file of an earlier run fresh and
\* returned as a no-op with status 0; the other invocation has opened the file and
\* not yet written the payload: the file is empty.
C19_Witness ==
    /\ other.check /\ other.pc = "returned" /\ other.exit_code = 0
    /\ other.output_exists
    /\ other.trace = <<"read:" \o OutputJsonPath>>
    /\ ~check /\ pc = "write_output"
    /\ files0[OutputJsonPath] = TextFile(OldJson)
    /\ files[OutputJsonPath] = TextFile("")
    /\ ~json_loads_ok(files[OutputJsonPath].text)

====
